---- MODULE Spec2Model ----
(***************************************************************************)
(* Outlook OAuth MCP server: the bearer-token gate, the per-request        *)
(* context store (AsyncLocalStorage) and the sliding-window rate limiter.  *)
(* Time is in milliseconds, as Date.now() gives it.                        *)
(***************************************************************************)
EXTENDS Integers, Sequences, FiniteSets, TLC

\* ------------------------------------------------------------------ bounds

\* The clock stops advancing here.
MaxTime == 300000

\* The clock advances in steps of this many milliseconds while single
\* requests are followed.
TickMs == 20000

\* The clock advances in steps of this many milliseconds over the long
\* horizon of the sweep.
SweepTickMs == 30000

\* The horizon of the clock while single requests are followed.
MaxRequestTime == 120000

\* Direct callers of recordRequest stop after this many records in total.
MaxRecords == 4

\* config.rateLimitRequests: externally supplied (default 30).
rateLimitRequests == 2

\* ------------------------------------------------------- program constants

\* config.rateLimitWindowMs: its documented default.
rateLimitWindowMs == 60000

CLEANUP_INTERVAL_MS == 300000

REGISTRATION_LIMIT == 5

REGISTRATION_WINDOW_MS == 60000

\* ------------------------------------------------------------ value domain

\* JavaScript's undefined.
Undefined == "undefined"

\* Keys of the per-user store.
UserKeys == {"alice", "bob", "unknown"}

\* Keys of the per-address store.
IPs == {"10.0.0.1", "unknown"}

\* ------------------------------------------------------------------ helpers

Max(a, b) == IF a >= b THEN a ELSE b

\* The newest timestamp of a non-empty array in place of the oldest.
MinOf_newest(requests) ==
    CHOOSE m \in {requests[i] : i \in 1..Len(requests)} :
        \A i \in 1..Len(requests) : m >= requests[i]

\* Math.min(...requests) of a non-empty array.
MinOf(requests) ==
    CHOOSE m \in {requests[i] : i \in 1..Len(requests)} :
        \A i \in 1..Len(requests) : m <= requests[i]

\* Math.ceil(ms / 1000) for ms >= 0.
CeilSeconds(ms) == (ms + 999) \div 1000

\* A map replaced by one that holds the entry of this key only.
MapSet_only(store, key, entry) == [k \in {key} |-> entry]

\* Map.prototype.set
MapSet(store, key, entry) ==
    [k \in DOMAIN store \cup {key} |-> IF k = key THEN entry ELSE store[k]]

\* Map.prototype.delete of a set of keys
MapDelete(store, keys) == [k \in DOMAIN store \ keys |-> store[k]]

\* The number of elements of a sequence equal to x.
\* The timestamps stored for key k.
Stored(store, k) == IF k \in DOMAIN store THEN store[k].requests ELSE <<>>

Count(seq, x) == Cardinality({i \in 1..Len(seq) : seq[i] = x})

\* ------------------------------------------------------------------ strings

\* A string is the sequence of its characters.
IsWhitespace(c) == c \in {" ", "\t"}

\* String.prototype.startsWith
startsWith_anyCase(str, prefix) ==
    /\ Len(str) >= Len(prefix)
    /\ \A i \in 1..Len(prefix) :
          \/ str[i] = prefix[i]
          \/ <<str[i], prefix[i]>> \in {<<"b", "B">>, <<"B", "b">>}

startsWith(str, prefix) ==
    /\ Len(str) >= Len(prefix)
    /\ SubSeq(str, 1, Len(prefix)) = prefix

\* String.prototype.substring(start), start counted from 0
substring(str, start) == SubSeq(str, start + 1, Len(str))

RECURSIVE trimStart(_)
trimStart(str) ==
    IF str # <<>> /\ IsWhitespace(Head(str)) THEN trimStart(Tail(str)) ELSE str

RECURSIVE trimEnd(_)
trimEnd(str) ==
    IF str # <<>> /\ IsWhitespace(str[Len(str)])
    THEN trimEnd(SubSeq(str, 1, Len(str) - 1)) ELSE str

\* String.prototype.trim
trim_none(str) == str

trim(str) == trimEnd(trimStart(str))

\* String.prototype.split(separator): the parts between the separators.
RECURSIVE splitFrom(_, _, _)
splitFrom(str, separator, part) ==
    IF str = <<>> THEN <<part>>
    ELSE IF Head(str) = separator
         THEN <<part>> \o splitFrom(Tail(str), separator, <<>>)
         ELSE splitFrom(Tail(str), separator, Append(part, Head(str)))

split(str, separator) == splitFrom(str, separator, <<>>)

\* ------------------------------------------------------------------- tokens

\* exp is <<>> when the claim is absent, <<seconds>> when present.
NoClaims ==
    [iss |-> Undefined, aud |-> Undefined, exp |-> <<>>, tid |-> Undefined,
     oid |-> Undefined, sub |-> Undefined, preferred_username |-> Undefined,
     upn |-> Undefined, email |-> Undefined]

Claims(c) == [kind |-> "object", claims |-> c]

\* config.clientId (MS365_MCP_CLIENT_ID): externally supplied.
clientId == "app-1"

\* The issuer of tokens of tenant t1.
MicrosoftIssuer == "https://login.microsoftonline.com/t1/v2.0"

\* A payload with every claim parseToken requires, for tenant t1.
FullClaims ==
    [NoClaims EXCEPT !.iss = MicrosoftIssuer, !.aud = clientId, !.exp = <<1000000>>, !.tid = "t1",
                     !.oid = "u1", !.sub = "s1", !.preferred_username = "alice"]

\* Buffer.from(segment, 'base64url') ignores the whitespace characters
\* contained in the encoded string.
base64urlChars(segment) == SelectSeq(segment, LAMBDA c : ~IsWhitespace(c))

\* JSON.parse(Buffer.from(segment, 'base64url').toString('utf8')) on the
\* payload segments the requests of this model carry, each letter standing
\* for one encoded text: a JSON object with its claims, the JSON values
\* null, number, string and array, or a SyntaxError.
decodePayload(segment) ==
    LET encoded == base64urlChars(segment)
    IN CASE encoded = <<"p">> -> Claims(FullClaims)
         [] encoded = <<"q">> ->
              Claims([FullClaims EXCEPT !.oid = "u2", !.sub = "bob",
                                        !.preferred_username = Undefined])
         [] encoded = <<"e">> -> Claims([FullClaims EXCEPT !.exp = <<1>>])
         [] encoded = <<"w">> -> Claims([FullClaims EXCEPT !.tid = "t2"])
         [] encoded = <<"a">> ->
              Claims([NoClaims EXCEPT !.iss = MicrosoftIssuer, !.aud = clientId])
         [] encoded = <<"d">> -> Claims([FullClaims EXCEPT !.exp = <<30>>])
         [] encoded = <<"y">> -> Claims([FullClaims EXCEPT !.exp = <<20>>])
         [] encoded = <<"v">> -> Claims([FullClaims EXCEPT !.exp = <<19>>])
         [] encoded = <<"z">> -> Claims([FullClaims EXCEPT !.exp = <<0>>])
         [] encoded = <<"f">> -> Claims([FullClaims EXCEPT !.exp = <<>>])
         [] encoded = <<"i">> -> Claims([FullClaims EXCEPT !.iss = Undefined])
         [] encoded = <<"j">> -> Claims([FullClaims EXCEPT !.iss = ""])
         [] encoded = <<"u">> -> Claims([FullClaims EXCEPT !.aud = Undefined])
         [] encoded = <<"t">> -> Claims([FullClaims EXCEPT !.tid = Undefined])
         [] encoded = <<"m">> ->
              Claims([FullClaims EXCEPT !.oid = Undefined, !.sub = Undefined])
         [] encoded = <<"o">> -> Claims([FullClaims EXCEPT !.sub = Undefined])
         [] encoded = <<"b">> -> Claims([FullClaims EXCEPT !.oid = Undefined])
         [] encoded = <<"c">> -> Claims([FullClaims EXCEPT !.aud = "app-2"])
         [] encoded = <<"k">> ->
              Claims([FullClaims EXCEPT !.iss = "https://login.example.org/t1/v2.0"])
         [] encoded = <<"E">> -> Claims([FullClaims EXCEPT !.exp = <<1>>, !.tid = "t2"])
         [] encoded = <<"I">> ->
              Claims([FullClaims EXCEPT !.iss = Undefined, !.exp = <<1>>, !.tid = "t2"])
         [] encoded = <<"Z">> -> Claims([FullClaims EXCEPT !.exp = <<0>>, !.tid = "t2"])
         [] encoded = <<"n">> -> [kind |-> "null", claims |-> NoClaims]
         [] encoded = <<"7">> -> [kind |-> "number", claims |-> NoClaims]
         [] encoded = <<"g">> -> [kind |-> "string", claims |-> NoClaims]
         [] encoded = <<"r">> -> [kind |-> "array", claims |-> NoClaims]
         [] OTHER -> [kind |-> "SyntaxError", claims |-> NoClaims]

\* b || a
Or_second(a, b) == IF b # Undefined /\ b # "" THEN b ELSE a

\* a || b on strings: the empty string and undefined are falsy.
Or(a, b) == IF a # Undefined /\ a # "" THEN a ELSE b

\* config.allowedTenants: externally supplied.
allowedTenants == <<"t1">>

includes_any(array, x) == Len(array) > 0

\* Array.prototype.includes
includes(array, x) == \E i \in 1..Len(array) : array[i] = x

\* parseToken(token) at time t with the configured tenant allow-list: the
\* parsed token, or the code of the TokenValidationError it throws; reading a
\* claim of the JSON value null throws a TypeError.
parseToken(token, t, tenants) ==
    LET parts == split(token, ".")
        Fail(code) == [ok |-> FALSE, code |-> code, claims |-> NoClaims]
    IN IF Len(parts) # 3 THEN Fail("invalid_token")
       ELSE LET decoded == decodePayload(parts[2])
                payload == decoded.claims
                nowSeconds == t \div 1000
            IN IF decoded.kind = "SyntaxError" THEN Fail("invalid_token")
               ELSE IF decoded.kind = "null" THEN Fail("TypeError")
               ELSE IF Or(payload.iss, Undefined) = Undefined
                       \/ Or(payload.aud, Undefined) = Undefined
                    THEN Fail("invalid_token")
               ELSE IF Or(payload.oid, Undefined) = Undefined
                       /\ Or(payload.sub, Undefined) = Undefined
                    THEN Fail("invalid_token")
               ELSE IF Or(payload.tid, Undefined) = Undefined
                    THEN Fail("invalid_token")
               ELSE IF payload.exp # <<>> /\ payload.exp[1] # 0
                       /\ payload.exp[1] < nowSeconds - 60
                    THEN Fail("expired_token")
               ELSE IF Len(tenants) > 0 /\ ~includes(tenants, payload.tid)
                    THEN Fail("tenant_not_allowed")
               ELSE [ok |-> TRUE, code |-> "ok",
                     claims |-> [payload EXCEPT
                                   !.oid = Or(payload.oid, payload.sub),
                                   !.sub = Or(payload.sub, payload.oid)]]

\* ----------------------------------------------------------- bearer gate

\* The characters of 'Bearer '.
BearerPrefix == <<"B", "e", "a", "r", "e", "r", " ">>

\* An HTTP response: status and the JSON body's error fields.
NoResponse == [sent |-> FALSE, status |-> 0, error |-> "", error_description |-> ""]

Rejection(status, error, description) ==
    [sent |-> TRUE, status |-> status, error |-> error, error_description |-> description]

\* req.auth when the middleware has not set it.
NoAuth == [set |-> FALSE, token |-> <<>>, userId |-> Undefined]

\* The userId the middleware reads from the payload; undefined when
\* decoding or the property access throws.
payloadUserId(segment) ==
    LET decoded == decodePayload(segment)
        payload == decoded.claims
    IN IF decoded.kind \in {"SyntaxError", "null"} THEN Undefined
       ELSE Or(payload.preferred_username,
               Or(payload.upn, Or(payload.email, payload.sub)))

\* req.path of the requests on the MCP endpoint.
RequestPath == "/mcp"

\* logger.<level>(message, { path, userId }): the fields a call leaves out
\* are undefined.
LogEntry(level, message, path, userId) ==
    [level |-> level, message |-> message, path |-> path, userId |-> userId]

\* The debug entry written when the payload cannot be read for a user id.
payloadLog(segment) ==
    IF decodePayload(segment).kind \in {"SyntaxError", "null"}
    THEN <<LogEntry("debug", "Could not parse token payload for user ID",
                    Undefined, Undefined)>>
    ELSE <<>>

\* optionalAuthMiddleware: next() is always called; req.auth is set only
\* for a non-empty Bearer token.
optionalAuthMiddleware(authHeader) ==
    IF authHeader.present /\ startsWith(authHeader.value, BearerPrefix)
       /\ trim(substring(authHeader.value, 7)) # <<>>
    THEN LET token == trim(substring(authHeader.value, 7))
             parts == split(token, ".")
         IN [next |-> TRUE,
             auth |-> [set |-> TRUE, token |-> token,
                       userId |-> IF Len(parts) = 3 THEN payloadUserId(parts[2])
                                  ELSE Undefined],
             response |-> NoResponse, log |-> <<>>]
    ELSE [next |-> TRUE, auth |-> NoAuth, response |-> NoResponse, log |-> <<>>]

\* A gate that rejects the token whose payload it cannot read.
bearerAuthMiddleware_failClosed(authHeader) ==
    LET Reject(message, error, description) ==
            [next |-> FALSE, auth |-> NoAuth,
             response |-> Rejection(401, error, description),
             log |-> <<LogEntry("warn", message, RequestPath, Undefined)>>]
    IN IF ~authHeader.present \/ authHeader.value = <<>>
       THEN Reject("Missing Authorization header",
                   "invalid_request", "Missing Authorization header")
       ELSE IF ~startsWith(authHeader.value, BearerPrefix)
       THEN Reject("Invalid Authorization header format",
                   "invalid_request", "Authorization header must use Bearer scheme")
       ELSE LET token == trim(substring(authHeader.value, 7))
                parts == split(token, ".")
            IN IF token = <<>>
               THEN Reject("Empty Bearer token", "invalid_token", "Bearer token is empty")
               ELSE IF Len(parts) # 3
               THEN Reject("Invalid token format", "invalid_token", "Token format is invalid")
               ELSE IF decodePayload(parts[2]).kind \in {"SyntaxError", "null"}
               THEN Reject("Invalid token format", "invalid_token", "Token format is invalid")
               ELSE [next |-> TRUE,
                     auth |-> [set |-> TRUE, token |-> token,
                               userId |-> payloadUserId(parts[2])],
                     response |-> NoResponse,
                     log |-> payloadLog(parts[2])
                             \o <<LogEntry("debug", "Bearer token validated", RequestPath,
                                           payloadUserId(parts[2]))>>]

\* A gate whose rejection of a malformed token tells how the token is
\* malformed.
bearerAuthMiddleware_telling(authHeader) ==
    LET Reject(message, error, description) ==
            [next |-> FALSE, auth |-> NoAuth,
             response |-> Rejection(401, error, description),
             log |-> <<LogEntry("warn", message, RequestPath, Undefined)>>]
    IN IF ~authHeader.present \/ authHeader.value = <<>>
       THEN Reject("Missing Authorization header",
                   "invalid_request", "Missing Authorization header")
       ELSE IF ~startsWith(authHeader.value, BearerPrefix)
       THEN Reject("Invalid Authorization header format",
                   "invalid_request", "Authorization header must use Bearer scheme")
       ELSE LET token == trim(substring(authHeader.value, 7))
                parts == split(token, ".")
            IN IF token = <<>>
               THEN Reject("Empty Bearer token", "invalid_token", "Bearer token is empty")
               ELSE IF Len(parts) # 3
               THEN IF Len(parts) < 3
                    THEN Reject("Invalid token format", "invalid_token",
                                "Token has too few segments")
                    ELSE Reject("Invalid token format", "invalid_token",
                                "Token has too many segments")
               ELSE [next |-> TRUE,
                     auth |-> [set |-> TRUE, token |-> token,
                               userId |-> payloadUserId(parts[2])],
                     response |-> NoResponse,
                     log |-> payloadLog(parts[2])
                             \o <<LogEntry("debug", "Bearer token validated", RequestPath,
                                           payloadUserId(parts[2]))>>]

\* bearerAuthMiddleware on a request whose Authorization header is
\* authHeader ([present, value]): whether next() is called, req.auth, the
\* response it sends and the log entries it writes.
bearerAuthMiddleware(authHeader) ==
    LET Reject(message, error, description) ==
            [next |-> FALSE, auth |-> NoAuth,
             response |-> Rejection(401, error, description),
             log |-> <<LogEntry("warn", message, RequestPath, Undefined)>>]
    IN IF ~authHeader.present \/ authHeader.value = <<>>
       THEN Reject("Missing Authorization header",
                   "invalid_request", "Missing Authorization header")
       ELSE IF ~startsWith(authHeader.value, BearerPrefix)
       THEN Reject("Invalid Authorization header format",
                   "invalid_request", "Authorization header must use Bearer scheme")
       ELSE LET token == trim(substring(authHeader.value, 7))
                parts == split(token, ".")
            IN IF token = <<>>
               THEN Reject("Empty Bearer token", "invalid_token", "Bearer token is empty")
               ELSE IF Len(parts) # 3
               THEN Reject("Invalid token format", "invalid_token", "Token format is invalid")
               ELSE [next |-> TRUE,
                     auth |-> [set |-> TRUE, token |-> token,
                               userId |-> payloadUserId(parts[2])],
                     response |-> NoResponse,
                     log |-> payloadLog(parts[2])
                             \o <<LogEntry("debug", "Bearer token validated", RequestPath,
                                           payloadUserId(parts[2]))>>]

\* ------------------------------------------------------------ context store

\* AsyncLocalStorage: getStore() when no run() encloses the caller.
NoContext == [set |-> FALSE, accessToken |-> <<>>, userId |-> Undefined]

\* The store that is current in the caller of requestStorage.run(store, fn)
\* once run has returned: enterWith() would leave the new store current,
\* run() restores the one that was current before the call.
storeAfterRun_enterWith(previous, store) == store

storeAfterRun(previous, store) == previous

\* The store bound to a chain once the promise of its body has settled and
\* no continuation of the chain is left: a store kept in a module variable
\* would stay, the store of AsyncLocalStorage is gone with the chain.
storeAfterBody_retained(store) == store

storeAfterBody(store) == NoContext

RequestContext(accessToken, userId) ==
    [set |-> TRUE, accessToken |-> accessToken, userId |-> userId]

\* ------------------------------------------------------------ rate limiter

\* requests.filter(timestamp => timestamp > windowStart)
filterWindow_inclusive(requests, windowStart) ==
    SelectSeq(requests, LAMBDA timestamp : timestamp >= windowStart)

filterWindow_keepAll(requests, windowStart) == requests

filterWindow(requests, windowStart) ==
    SelectSeq(requests, LAMBDA timestamp : timestamp > windowStart)

\* entries.length >= limit
atLimit_strict(n, limit) == n > limit

atLimit(n, limit) == n >= limit

\* let cleanupInterval = null
NoTimer == [active |-> FALSE, dueAt |-> 0, unref |-> FALSE]

\* A startCleanup that sets a new interval timer on every call.
startCleanup_again(timer, t) ==
    [active |-> TRUE, dueAt |-> t + CLEANUP_INTERVAL_MS, unref |-> TRUE]

\* startCleanup: at most one interval timer, unref'd.
startCleanup(timer, t) ==
    IF timer.active THEN timer
    ELSE [active |-> TRUE, dueAt |-> t + CLEANUP_INTERVAL_MS, unref |-> TRUE]

\* A sweep that drops every entry not accessed at this very instant.
cleanupSweep_idle(store, t) ==
    MapDelete(store, {k \in DOMAIN store : store[k].lastAccess < t})

\* A sweep whose threshold is one window.
cleanupSweep_oneWindow(store, t) ==
    MapDelete(store, {k \in DOMAIN store : store[k].lastAccess < t - rateLimitWindowMs})

\* The body of the interval callback: drop the entries idle for more than
\* twice the window.
cleanupSweep(store, t) ==
    LET staleThreshold == t - (rateLimitWindowMs * 2)
    IN MapDelete(store, {k \in DOMAIN store : store[k].lastAccess < staleThreshold})

\* A checkRateLimit whose resetMs is 0 when no timestamp is retained.
checkRateLimit_resetZero(store, userId, t) ==
    LET windowStart == t - rateLimitWindowMs
        found == IF userId \in DOMAIN store THEN store[userId]
                 ELSE [requests |-> <<>>, lastAccess |-> t]
        requests == filterWindow(found.requests, windowStart)
        entry == [requests |-> requests, lastAccess |-> t]
    IN [store |-> MapSet(store, userId, entry),
        isLimited |-> atLimit(Len(requests), rateLimitRequests),
        remaining |-> Max(0, rateLimitRequests - Len(requests)),
        resetMs |-> IF Len(requests) > 0
                    THEN Max(0, (MinOf(requests) + rateLimitWindowMs) - t)
                    ELSE 0]

\* checkRateLimit(userId) at time t: the store it leaves and what it returns.
checkRateLimit(store, userId, t) ==
    LET windowStart == t - rateLimitWindowMs
        found == IF userId \in DOMAIN store THEN store[userId]
                 ELSE [requests |-> <<>>, lastAccess |-> t]
        requests == filterWindow(found.requests, windowStart)
        entry == [requests |-> requests, lastAccess |-> t]
    IN [store |-> MapSet(store, userId, entry),
        isLimited |-> atLimit(Len(requests), rateLimitRequests),
        remaining |-> Max(0, rateLimitRequests - Len(requests)),
        resetMs |-> IF Len(requests) > 0
                    THEN Max(0, (MinOf(requests) + rateLimitWindowMs) - t)
                    ELSE rateLimitWindowMs]

\* A recordRequest that pushes on the entry it expects to find, and fails
\* (leaving the store as it is) when the key has none.
recordRequest_existingOnly(store, userId, t) ==
    IF userId \in DOMAIN store
    THEN MapSet(store, userId,
                [requests |-> Append(store[userId].requests, t), lastAccess |-> t])
    ELSE store

\* A recordRequest that consults the limit and pushes nothing on a key that
\* holds limit timestamps.
recordRequest_capped(store, userId, t) ==
    LET found == IF userId \in DOMAIN store THEN store[userId]
                 ELSE [requests |-> <<>>, lastAccess |-> t]
    IN IF Len(found.requests) >= rateLimitRequests
       THEN MapSet(store, userId, [found EXCEPT !.lastAccess = t])
       ELSE MapSet(store, userId,
                   [requests |-> Append(found.requests, t), lastAccess |-> t])

\* recordRequest(userId) at time t: the store it leaves.
recordRequest(store, userId, t) ==
    LET found == IF userId \in DOMAIN store THEN store[userId]
                 ELSE [requests |-> <<>>, lastAccess |-> t]
    IN MapSet(store, userId,
              [requests |-> Append(found.requests, t), lastAccess |-> t])

\* The X-RateLimit-* headers; Retry-After is <<>> when not set.
RateLimitHeaders(limit, remaining, resetMs, limited) ==
    [limit |-> limit, remaining |-> remaining, reset |-> CeilSeconds(resetMs),
     retryAfter |-> IF limited THEN <<CeilSeconds(resetMs)>> ELSE <<>>]

NoHeaders == [limit |-> 0, remaining |-> 0, reset |-> 0, retryAfter |-> <<>>]

TooManyRequests(description) == Rejection(429, "rate_limit_exceeded", description)

\* The middleware rateLimitMiddleware() returns, on a request whose
\* rateLimitUserId is userId, at time t: the store it leaves, whether it
\* called checkRateLimit (which starts the sweep timer), recordRequest and
\* next(), and the headers and response it sent.
rateLimitMiddleware_recordFirst(store, userId, t) ==
    IF userId = Undefined \/ userId = ""
    THEN [store |-> store, checked |-> FALSE, recorded |-> FALSE, next |-> TRUE,
          headers |-> NoHeaders, response |-> NoResponse]
    ELSE LET check == checkRateLimit(recordRequest(store, userId, t), userId, t)
             headers == RateLimitHeaders(rateLimitRequests, check.remaining,
                                         check.resetMs, check.isLimited)
         IN [store |-> check.store, checked |-> TRUE, recorded |-> TRUE,
             next |-> ~check.isLimited, headers |-> headers,
             response |-> IF check.isLimited
                          THEN TooManyRequests("Too many requests. Please try again later.")
                          ELSE NoResponse]

rateLimitMiddleware(store, userId, t) ==
    IF userId = Undefined \/ userId = ""
    THEN [store |-> store, checked |-> FALSE, recorded |-> FALSE, next |-> TRUE,
          headers |-> NoHeaders, response |-> NoResponse]
    ELSE LET check == checkRateLimit(store, userId, t)
             headers == RateLimitHeaders(rateLimitRequests, check.remaining,
                                         check.resetMs, check.isLimited)
         IN IF check.isLimited
            THEN [store |-> check.store, checked |-> TRUE, recorded |-> FALSE,
                  next |-> FALSE, headers |-> headers,
                  response |-> TooManyRequests("Too many requests. Please try again later.")]
            ELSE [store |-> recordRequest(check.store, userId, t), checked |-> TRUE,
                  recorded |-> TRUE, next |-> TRUE, headers |-> headers,
                  response |-> NoResponse]

\* A registration limiter that compares with > in place of >=.
registrationRateLimitMiddleware_strict(store, ip, t) ==
    LET windowStart == t - REGISTRATION_WINDOW_MS
        found == IF ip \in DOMAIN store THEN store[ip]
                 ELSE [requests |-> <<>>, lastAccess |-> t]
        requests == filterWindow(found.requests, windowStart)
        remaining == Max(0, REGISTRATION_LIMIT - Len(requests))
        isLimited == atLimit_strict(Len(requests), REGISTRATION_LIMIT)
        resetMs == IF Len(requests) > 0
                   THEN Max(0, (MinOf(requests) + REGISTRATION_WINDOW_MS) - t)
                   ELSE REGISTRATION_WINDOW_MS
        headers == RateLimitHeaders(REGISTRATION_LIMIT, remaining, resetMs, isLimited)
    IN IF isLimited
       THEN [store |-> MapSet(store, ip, [requests |-> requests, lastAccess |-> t]),
             checked |-> FALSE, recorded |-> FALSE, next |-> FALSE, headers |-> headers,
             response |-> TooManyRequests(
                 "Too many registration requests. Please try again later.")]
       ELSE [store |-> MapSet(store, ip,
                              [requests |-> Append(requests, t), lastAccess |-> t]),
             checked |-> FALSE, recorded |-> TRUE, next |-> TRUE, headers |-> headers,
             response |-> NoResponse]

\* The middleware registrationRateLimitMiddleware() returns, on a request
\* from address ip, at time t.
registrationRateLimitMiddleware(store, ip, t) ==
    LET windowStart == t - REGISTRATION_WINDOW_MS
        found == IF ip \in DOMAIN store THEN store[ip]
                 ELSE [requests |-> <<>>, lastAccess |-> t]
        requests == filterWindow(found.requests, windowStart)
        remaining == Max(0, REGISTRATION_LIMIT - Len(requests))
        isLimited == atLimit(Len(requests), REGISTRATION_LIMIT)
        resetMs == IF Len(requests) > 0
                   THEN Max(0, (MinOf(requests) + REGISTRATION_WINDOW_MS) - t)
                   ELSE REGISTRATION_WINDOW_MS
        headers == RateLimitHeaders(REGISTRATION_LIMIT, remaining, resetMs, isLimited)
    IN IF isLimited
       THEN [store |-> MapSet(store, ip, [requests |-> requests, lastAccess |-> t]),
             checked |-> FALSE, recorded |-> FALSE, next |-> FALSE, headers |-> headers,
             response |-> TooManyRequests(
                 "Too many registration requests. Please try again later.")]
       ELSE [store |-> MapSet(store, ip,
                              [requests |-> Append(requests, t), lastAccess |-> t]),
             checked |-> FALSE, recorded |-> TRUE, next |-> TRUE, headers |-> headers,
             response |-> NoResponse]

\* ----------------------------------------------------------- configuration

\* parseInt(text, 10) on the texts MS365_MCP_PORT takes in this model: the
\* leading decimal digits, <<>> (NaN) when there is none.
parseInt(text) ==
    CASE text = "3000" -> <<3000>>
      [] text = "8080" -> <<8080>>
      [] text = "80x" -> <<80>>
      [] OTHER -> <<>>

\* process.env with no variable of the server set.
NoEnv ==
    [MS365_MCP_CLIENT_ID |-> Undefined, MS365_MCP_CLIENT_SECRET |-> Undefined,
     MS365_MCP_TENANT_ID |-> Undefined, MS365_MCP_PORT |-> Undefined,
     MS365_MCP_HOST |-> Undefined, MS365_MCP_LOG_LEVEL |-> Undefined,
     MS365_MCP_CORS_ORIGIN |-> Undefined]

\* The Config object built from an environment.
loadConfig(env) ==
    [isNull |-> FALSE,
     clientId |-> env.MS365_MCP_CLIENT_ID,
     clientSecret |-> Or(env.MS365_MCP_CLIENT_SECRET, Undefined),
     tenantId |-> Or(env.MS365_MCP_TENANT_ID, "common"),
     port |-> parseInt(Or(env.MS365_MCP_PORT, "3000")),
     host |-> Or(env.MS365_MCP_HOST, "0.0.0.0"),
     logLevel |-> Or(env.MS365_MCP_LOG_LEVEL, "info"),
     corsOrigin |-> Or(env.MS365_MCP_CORS_ORIGIN, "*")]

\* cachedConfig = null
NullConfig == [loadConfig(NoEnv) EXCEPT !.isNull = TRUE]

\* A getConfig that builds the configuration from the environment on every
\* call.
getConfig_reload(cached, env) ==
    IF Or(env.MS365_MCP_CLIENT_ID, Undefined) = Undefined
    THEN [cachedConfig |-> cached, threw |-> TRUE, returned |-> NullConfig]
    ELSE [cachedConfig |-> loadConfig(env), threw |-> FALSE, returned |-> loadConfig(env)]

\* getConfig() with this cachedConfig and process.env: the cachedConfig it
\* leaves, whether it throws, and the object it returns.
getConfig(cached, env) ==
    IF ~cached.isNull
    THEN [cachedConfig |-> cached, threw |-> FALSE, returned |-> cached]
    ELSE IF Or(env.MS365_MCP_CLIENT_ID, Undefined) = Undefined
    THEN [cachedConfig |-> cached, threw |-> TRUE, returned |-> NullConfig]
    ELSE [cachedConfig |-> loadConfig(env), threw |-> FALSE, returned |-> loadConfig(env)]

\* ------------------------------------------------------------------- state

VARIABLES
    now,                    \* Date.now()
    rateLimitStore,         \* Map<string, RateLimitEntry>, per user
    registrationLimitStore, \* Map<string, RateLimitEntry>, per address
    cleanupInterval,        \* the sweep timer, or NoTimer
    requestLog,             \* history: every timestamp recordRequest pushed, per key
    req,                    \* the /mcp requests in flight, per slot
    requestStorage,         \* AsyncLocalStorage: the store bound to each request's chain
    middlewareCall,         \* the last call of a rate-limit middleware and its outcome
    callers,                \* callers of checkRateLimit that await before recordRequest
    parsed,                 \* the last call of parseToken and its outcome
    processEnv,             \* process.env
    cachedConfig,           \* the module variable of config.ts, or NullConfig
    configCall              \* the last call of getConfig and its outcome

vars == <<now, rateLimitStore, registrationLimitStore, cleanupInterval, requestLog,
          req, requestStorage, middlewareCall, callers, parsed,
          processEnv, cachedConfig, configCall>>

\* Two concurrent requests that call the limiter in two steps.
Callers == {"c1", "c2"}

\* The slots of concurrently handled /mcp requests.
Reqs == {"r1", "r2"}

NoHeader == [present |-> FALSE, value |-> <<>>]

Header(value) == [present |-> TRUE, value |-> value]

\* A slot with no request in it.
IdleRequest ==
    [pc |-> "idle", authHeader |-> NoHeader, auth |-> NoAuth, nextCalls |-> 0,
     gateResponse |-> NoResponse, response |-> NoResponse, responsesSent |-> 0,
     contextInstalls |-> 0, recorded |-> 0, limitedAtGate |-> FALSE,
     parseCode |-> "none", observed |-> {}, downstream |-> {}, closed |-> FALSE,
     outer |-> NoContext, observedOutside |-> {}, log |-> <<>>, escaped |-> FALSE]

NoCall ==
    [route |-> "none", key |-> Undefined, recorded |-> FALSE, next |-> FALSE,
     headers |-> NoHeaders, response |-> NoResponse]

EmptyMap == [k \in {} |-> Undefined]

NoConfigCall == [called |-> FALSE, threw |-> FALSE, returned |-> NullConfig]

NoParse ==
    [called |-> FALSE, token |-> <<>>, tenants |-> <<>>, at |-> 0,
     result |-> [ok |-> FALSE, code |-> "none", claims |-> NoClaims]]

Init ==
    /\ now = 0
    /\ rateLimitStore = EmptyMap
    /\ registrationLimitStore = EmptyMap
    /\ cleanupInterval = NoTimer
    /\ requestLog = [k \in UserKeys |-> <<>>]
    /\ req = [r \in Reqs |-> IdleRequest]
    /\ requestStorage = [r \in Reqs |-> NoContext]
    /\ middlewareCall = NoCall
    /\ callers = [c \in Callers |-> "idle"]
    /\ parsed = NoParse
    /\ processEnv = NoEnv
    /\ cachedConfig = NullConfig
    /\ configCall = NoConfigCall

\* ------------------------------------------------------------------- clock

\* Time passes by one step, up to a horizon.
Advance(step, horizon) ==
    /\ now + step <= horizon
    /\ now' = now + step
    /\ UNCHANGED <<processEnv, cachedConfig, configCall, parsed, callers, rateLimitStore, registrationLimitStore, cleanupInterval,
                   requestLog, req, requestStorage, middlewareCall>>

TickTo(horizon) == Advance(TickMs, horizon)

Tick == Advance(SweepTickMs, MaxTime)

\* The interval timer fires: the sweep of the per-user store.
Cleanup ==
    /\ cleanupInterval.active
    /\ now >= cleanupInterval.dueAt
    /\ rateLimitStore' = cleanupSweep(rateLimitStore, now)
    /\ cleanupInterval' = [cleanupInterval EXCEPT !.dueAt = now + CLEANUP_INTERVAL_MS]
    /\ UNCHANGED <<processEnv, cachedConfig, configCall, parsed, callers, now, registrationLimitStore, requestLog, req, requestStorage, middlewareCall>>

\* --------------------------------------------- the limiter called directly

\* A caller invokes checkRateLimit(k).
Check(k) ==
    /\ rateLimitStore' = checkRateLimit(rateLimitStore, k, now).store
    /\ cleanupInterval' = startCleanup(cleanupInterval, now)
    /\ UNCHANGED <<processEnv, cachedConfig, configCall, parsed, callers, now, registrationLimitStore, requestLog, req, requestStorage, middlewareCall>>

\* The number of timestamps ever recorded, over all keys.
RECURSIVE TotalLogged(_, _)
TotalLogged(log, keys) ==
    IF keys = {} THEN 0
    ELSE LET k == CHOOSE x \in keys : TRUE
         IN Len(log[k]) + TotalLogged(log, keys \ {k})

\* A caller invokes recordRequest(k).
Record(k) ==
    /\ TotalLogged(requestLog, UserKeys) < MaxRecords
    /\ rateLimitStore' = recordRequest(rateLimitStore, k, now)
    /\ requestLog' = [requestLog EXCEPT ![k] = Append(@, now)]
    /\ UNCHANGED <<processEnv, cachedConfig, configCall, parsed, callers, now, registrationLimitStore, cleanupInterval, req, requestStorage,
                   middlewareCall>>

\* ------------------------------------------------------- requests on /mcp

\* The tokens and Authorization headers requests carry.
TokenAlice == <<"h", ".", "p", ".", "s">>

TokenBob == <<"h", ".", "q", ".", "s">>

TokenExpired == <<"h", ".", "e", ".", "s">>

TokenOtherTenant == <<"h", ".", "w", ".", "s">>

TokenNotJson == <<"h", ".", "x", ".", "s">>

TokenTwoParts == <<"h", ".", "p">>

TokenFourParts == <<"h", ".", "p", ".", "s", ".", "s">>

HeaderEmpty == Header(<<>>)

HeaderBasic == Header(<<"B", "a", "s", "i", "c", " ">> \o TokenAlice)

HeaderLowerCase == Header(<<"b", "e", "a", "r", "e", "r", " ">> \o TokenAlice)

HeaderNoSpace == Header(<<"B", "e", "a", "r", "e", "r">> \o TokenAlice)

HeaderNoToken == Header(BearerPrefix)

HeaderBlankToken == Header(BearerPrefix \o <<" ", "\t">>)

HeaderTwoParts == Header(BearerPrefix \o TokenTwoParts)

HeaderFourParts == Header(BearerPrefix \o TokenFourParts)

HeaderNotJson == Header(BearerPrefix \o TokenNotJson)

HeaderNullPayload == Header(BearerPrefix \o <<"h", ".", "n", ".", "s">>)

HeaderOtherAudience == Header(BearerPrefix \o <<"h", ".", "c", ".", "s">>)

HeaderOtherIssuer == Header(BearerPrefix \o <<"h", ".", "k", ".", "s">>)

HeaderAlice == Header(BearerPrefix \o TokenAlice)

HeaderBob == Header(BearerPrefix \o TokenBob)

HeaderAlicePadded == Header(BearerPrefix \o <<" ">> \o TokenAlice \o <<" ">>)

HeaderExpired == Header(BearerPrefix \o TokenExpired)

HeaderOtherTenant == Header(BearerPrefix \o TokenOtherTenant)

Headers ==
    {NoHeader, HeaderEmpty, HeaderBasic, HeaderLowerCase, HeaderNoSpace, HeaderNoToken,
     HeaderBlankToken, HeaderTwoParts, HeaderFourParts, HeaderNotJson, HeaderAlice,
     HeaderBob, HeaderAlicePadded, HeaderExpired, HeaderOtherTenant, HeaderNullPayload,
     HeaderOtherAudience, HeaderOtherIssuer}

\* bearerAuthMiddleware on each of these headers (it reads nothing else).
GateOutcome == [h \in Headers |-> bearerAuthMiddleware(h)]

\* AsyncLocalStorage.getStore() called from the async chain of `resource`.
getStore_shared(resource) ==
    LET others == {q \in Reqs \ {resource} : requestStorage[q].set}
    IN IF others = {} THEN requestStorage[resource]
       ELSE requestStorage[CHOOSE q \in others : TRUE]

getStore(resource) == requestStorage[resource]

getContext(resource) == getStore(resource)

hasRequestContext(resource) == getStore(resource).set

\* The outer catch of handleMcpRequest answers with the JSON-RPC envelope
\* {error: {code: -32603, message: 'Internal server error'}}, status 500.
InternalError == Rejection(500, "-32603", "Internal server error")

\* What the limiter would answer for this identity now (nothing is stored).
WouldLimit(userId) ==
    /\ userId \in UserKeys
    /\ checkRateLimit(rateLimitStore, userId, now).isLimited

\* A request arrives on /mcp with Authorization header h: bearerAuthMiddleware
\* runs and, when it calls next(), handleMcpRequest runs up to its first
\* await (mcpServer.connect) inside runWithContext.
McpRequest(r, h) ==
    LET gate == GateOutcome[h]
        arrived == [IdleRequest EXCEPT
                      !.authHeader = h,
                      !.auth = gate.auth,
                      !.log = gate.log,
                      !.nextCalls = IF gate.next THEN 1 ELSE 0,
                      !.gateResponse = gate.response,
                      !.responsesSent = IF gate.response.sent THEN 1 ELSE 0,
                      !.limitedAtGate = gate.next /\ WouldLimit(gate.auth.userId),
                      !.parseCode = IF gate.next
                                    THEN parseToken(gate.auth.token, now, allowedTenants).code
                                    ELSE "none"]
    IN /\ req[r].pc \in {"idle", "done"}
       /\ IF ~gate.next
          THEN /\ req' = [req EXCEPT ![r] = [arrived EXCEPT !.pc = "done"]]
               /\ UNCHANGED requestStorage
          ELSE IF ~gate.auth.set \/ gate.auth.token = <<>>
          THEN /\ req' = [req EXCEPT ![r] =
                            [arrived EXCEPT
                               !.pc = "done",
                               !.response = Rejection(401, "invalid_token",
                                                "No valid access token provided"),
                               !.responsesSent = @ + 1]]
               /\ UNCHANGED requestStorage
          ELSE /\ req' = [req EXCEPT ![r] =
                            [arrived EXCEPT
                               !.pc = "connecting",
                               !.contextInstalls = @ + 1,
                               !.outer = storeAfterRun(NoContext,
                                            RequestContext(gate.auth.token,
                                                           gate.auth.userId))]]
               /\ requestStorage' =
                     [requestStorage EXCEPT
                        ![r] = RequestContext(gate.auth.token, gate.auth.userId)]
       /\ UNCHANGED <<processEnv, cachedConfig, configCall, parsed, callers, now, rateLimitStore, registrationLimitStore, cleanupInterval,
                      requestLog, middlewareCall>>

\* mcpServer.connect(transport) resolves; transport.handleRequest is called.
ConnectResolved(r) ==
    /\ req[r].pc = "connecting"
    /\ req' = [req EXCEPT ![r].pc = "handling",
                          ![r].observed = @ \cup {getContext(r)}]
    /\ UNCHANGED <<processEnv, cachedConfig, configCall, parsed, callers, now, rateLimitStore, registrationLimitStore, cleanupInterval,
                   requestLog, requestStorage, middlewareCall>>

\* The response the transport writes.
TransportResponse == [sent |-> TRUE, status |-> 200, error |-> "", error_description |-> ""]

\* A catch block that answers 500 whether or not headers were sent.
catchBlock_always500(headersSent, response, responsesSent) ==
    [response |-> InternalError, responsesSent |-> responsesSent + 1, escaped |-> FALSE,
     log |-> <<LogEntry("error", "MCP request error", Undefined, Undefined)>>]

\* catch (error) { ... } of handleMcpRequest: the error is logged with its
\* message, the 500 envelope is sent unless headers were sent already, and
\* nothing is thrown again.
catchBlock(headersSent, response, responsesSent) ==
    [response |-> IF headersSent THEN response ELSE InternalError,
     responsesSent |-> IF headersSent THEN responsesSent ELSE responsesSent + 1,
     escaped |-> FALSE,
     log |-> <<LogEntry("error", "MCP request error", Undefined, Undefined)>>]

\* The body of runWithContext ends by the catch block, entered with or
\* without response headers sent.
Caught(r, headersSent) ==
    LET sentBefore == IF headersSent THEN TransportResponse ELSE req[r].response
        countBefore == IF headersSent THEN req[r].responsesSent + 1
                       ELSE req[r].responsesSent
        out == catchBlock(headersSent, sentBefore, countBefore)
    IN /\ req' = [req EXCEPT
                    ![r].pc = "done",
                    ![r].response = out.response,
                    ![r].responsesSent = out.responsesSent,
                    ![r].escaped = out.escaped,
                    ![r].log = @ \o out.log]
       /\ requestStorage' = [requestStorage EXCEPT ![r] = storeAfterBody(@)]
       /\ UNCHANGED <<processEnv, cachedConfig, configCall, parsed, callers, now, rateLimitStore, registrationLimitStore,
                      cleanupInterval, requestLog, middlewareCall>>

\* mcpServer.connect(transport) rejects.
ConnectRejected(r) ==
    /\ req[r].pc = "connecting"
    /\ Caught(r, FALSE)

\* Inside transport.handleRequest a tool handler runs: it reads the token
\* from the context and calls Graph with it.
ToolDispatch(r) ==
    /\ req[r].pc = "handling"
    /\ ~req[r].closed
    /\ req' = [req EXCEPT ![r].observed = @ \cup {getContext(r)},
                          ![r].downstream = @ \cup {getContext(r).accessToken}]
    /\ UNCHANGED <<processEnv, cachedConfig, configCall, parsed, callers, now, rateLimitStore, registrationLimitStore, cleanupInterval,
                   requestLog, requestStorage, middlewareCall>>

\* transport.handleRequest resolves: the transport has written the response,
\* unless the connection was closed before.
HandleCompleted(r) ==
    /\ req[r].pc = "handling"
    /\ req' = [req EXCEPT
                 ![r].pc = "done",
                 ![r].response = IF req[r].closed THEN @ ELSE TransportResponse,
                 ![r].responsesSent = IF req[r].closed THEN @ ELSE @ + 1]
    /\ requestStorage' = [requestStorage EXCEPT ![r] = storeAfterBody(@)]
    /\ UNCHANGED <<processEnv, cachedConfig, configCall, parsed, callers, now, rateLimitStore, registrationLimitStore, cleanupInterval,
                   requestLog, middlewareCall>>

\* transport.handleRequest rejects, before or after the transport wrote
\* the response headers (with a status of its choosing, 200 here).
HandleThrows(r, headersSent) ==
    /\ req[r].pc = "handling"
    /\ headersSent => ~req[r].closed
    /\ Caught(r, headersSent)

\* The connection closes: the 'close' listener calls transport.close().
ConnectionClosed(r) ==
    /\ req[r].pc \in {"connecting", "handling"}
    /\ ~req[r].closed
    /\ req' = [req EXCEPT ![r].closed = TRUE]
    /\ UNCHANGED <<processEnv, cachedConfig, configCall, parsed, callers, now, rateLimitStore, registrationLimitStore, cleanupInterval,
                   requestLog, requestStorage, middlewareCall>>

\* Code of request r that runs outside the body of runWithContext (the
\* caller of handleMcpRequest once it has returned, listeners called from
\* the socket) reads the context.
OutsideGetContext(r) ==
    /\ req[r].pc # "idle"
    /\ req' = [req EXCEPT ![r].observedOutside = @ \cup {req[r].outer}]
    /\ UNCHANGED <<processEnv, cachedConfig, configCall, parsed, callers, now, rateLimitStore, registrationLimitStore, cleanupInterval,
                   requestLog, requestStorage, middlewareCall>>

\* ------------------------------------- requests through the rate limiters

\* A request whose rateLimitUserId is userId passes rateLimitMiddleware().
RateLimitedRequest(userId) ==
    LET out == rateLimitMiddleware(rateLimitStore, userId, now)
    IN /\ TotalLogged(requestLog, UserKeys) < MaxRecords
       /\ rateLimitStore' = out.store
       /\ cleanupInterval' = IF out.checked THEN startCleanup(cleanupInterval, now)
                             ELSE cleanupInterval
       /\ requestLog' = IF out.recorded
                        THEN [requestLog EXCEPT ![userId] = Append(@, now)]
                        ELSE requestLog
       /\ middlewareCall' =
             [route |-> "user", key |-> userId,
              recorded |-> out.recorded, next |-> out.next, headers |-> out.headers,
              response |-> out.response]
       /\ UNCHANGED <<processEnv, cachedConfig, configCall, parsed, callers, now, registrationLimitStore, req, requestStorage>>

\* A request from address ip passes registrationRateLimitMiddleware().
RegistrationRequest(ip) ==
    LET out == registrationRateLimitMiddleware(registrationLimitStore, ip, now)
    IN /\ registrationLimitStore' = out.store
       /\ middlewareCall' =
             [route |-> "registration", key |-> ip,
              recorded |-> out.recorded, next |-> out.next, headers |-> out.headers,
              response |-> out.response]
       /\ UNCHANGED <<processEnv, cachedConfig, configCall, parsed, callers, now, rateLimitStore, cleanupInterval, requestLog, req,
                      requestStorage>>

\* The /mcp gate and handler followed for one request at a time, beside
\* traffic through the per-user limiter.
NextGate ==
    \/ TickTo(MaxRequestTime)
    \/ \E h \in Headers : McpRequest("r1", h)
    \/ ConnectResolved("r1")
    \/ ConnectRejected("r1")
    \/ ToolDispatch("r1")
    \/ HandleCompleted("r1")
    \/ \E headersSent \in BOOLEAN : HandleThrows("r1", headersSent)
    \/ ConnectionClosed("r1")
    \/ RateLimitedRequest("alice")

Spec == Init /\ [][NextGate]_vars

\* Concurrent /mcp requests whose tokens pass the gate.
NextContext ==
    \/ \E r \in Reqs, h \in {HeaderAlice, HeaderBob, HeaderNotJson} : McpRequest(r, h)
    \/ \E r \in Reqs : ConnectResolved(r)
    \/ \E r \in Reqs : ConnectRejected(r)
    \/ \E r \in Reqs : ToolDispatch(r)
    \/ \E r \in Reqs : HandleCompleted(r)
    \/ \E r \in Reqs, headersSent \in BOOLEAN : HandleThrows(r, headersSent)
    \/ \E r \in Reqs : ConnectionClosed(r)
    \/ \E r \in Reqs : OutsideGetContext(r)

SpecContext == Init /\ [][NextContext]_vars

\* Requests through the two rate-limit middlewares.
NextMiddleware ==
    \/ TickTo(MaxRequestTime)
    \/ \E userId \in {"alice", Undefined} : RateLimitedRequest(userId)
    \/ RegistrationRequest("10.0.0.1")

SpecMiddleware == Init /\ [][NextMiddleware]_vars

\* ------------------------------ check and record with an await in between

\* The callers that passed checkRateLimit and have not recorded yet.
Admitted == {c \in Callers : callers[c] = "admitted"}

\* Caller c calls checkRateLimit(k) and, unless limited, awaits.
CallerCheck(c, k) ==
    LET check == checkRateLimit(rateLimitStore, k, now)
    IN /\ callers[c] = "idle"
       /\ TotalLogged(requestLog, UserKeys) + Cardinality(Admitted) < MaxRecords
       /\ rateLimitStore' = check.store
       /\ cleanupInterval' = startCleanup(cleanupInterval, now)
       /\ callers' = [callers EXCEPT ![c] = IF check.isLimited THEN "idle" ELSE "admitted"]
       /\ UNCHANGED <<processEnv, cachedConfig, configCall, parsed, now, registrationLimitStore, requestLog, req, requestStorage,
                      middlewareCall>>

\* Caller c resumes and calls recordRequest(k).
CallerRecord(c, k) ==
    /\ callers[c] = "admitted"
    /\ rateLimitStore' = recordRequest(rateLimitStore, k, now)
    /\ requestLog' = [requestLog EXCEPT ![k] = Append(@, now)]
    /\ callers' = [callers EXCEPT ![c] = "idle"]
    /\ UNCHANGED <<processEnv, cachedConfig, configCall, parsed, now, registrationLimitStore, cleanupInterval, req, requestStorage,
                   middlewareCall>>

NextRace ==
    \/ Tick
    \/ Cleanup
    \/ \E c \in Callers : CallerCheck(c, "alice")
    \/ \E c \in Callers : CallerRecord(c, "alice")

SpecRace == Init /\ [][NextRace]_vars

\* checkRateLimit and recordRequest called directly.
NextLimiter ==
    \/ Tick
    \/ Cleanup
    \/ Check("alice")
    \/ Record("alice")

SpecLimiter == Init /\ [][NextLimiter]_vars

\* Both rate-limit middlewares and the sweep over its whole period, with a
\* key ('unknown', the fallback of the address key) that is a user identity
\* and a client address at once; each key is recorded twice at most.
NextSweep ==
    \/ Tick
    \/ Cleanup
    \/ \E userId \in {"alice", "unknown"} :
          Len(requestLog[userId]) < 2 /\ RateLimitedRequest(userId)
    \/ Len(Stored(registrationLimitStore, "unknown")) < 2 /\ RegistrationRequest("unknown")

SpecSweep == Init /\ [][NextSweep]_vars

\* The registration limiter beside the per-user limiter, on the same key.
NextRegistration ==
    \/ TickTo(MaxRequestTime)
    \/ RegistrationRequest("unknown")
    \/ RateLimitedRequest("unknown")

SpecRegistration == Init /\ [][NextRegistration]_vars

\* ------------------------------------------------- parseToken called

\* The token with header segment "h", signature segment "s" and this
\* payload segment.
TokenWith(payload) == <<"h", ".">> \o payload \o <<".", "s">>

\* The letters of the payload segments decodePayload knows.
PayloadLetters ==
    {"p", "q", "e", "w", "a", "d", "y", "v", "z", "f", "i", "j", "u", "t", "m", "o",
     "b", "c", "k", "E", "I", "Z", "n", "7", "g", "r"}

\* The tokens parseToken is called with: one per payload, a payload with
\* whitespace inside the segment, a payload that is no JSON text, and
\* strings of one, two, three and four segments, some of them empty.
Tokens ==
    {TokenWith(<<c>>) : c \in PayloadLetters}
    \cup {TokenWith(<<"p", " ">>), TokenWith(<<" ", "w">>), TokenNotJson,
          TokenTwoParts, TokenFourParts,
          <<>>, <<"h">>, <<"h", "p", "s">>, <<".", ".">>, <<"h", ".", ".", "s">>,
          <<".", "p", ".">>, <<".", "p", ".", "s">>, <<"h", ".", "p", ".">>,
          <<".", "p", ".", "s", ".">>}

\* The values of config.allowedTenants parseToken runs under.
TenantLists == {<<>>, <<"t1">>, <<"t2">>, <<"t2", "t1">>}

\* parseToken(token) is called while config.allowedTenants is tenants.
ParseToken(token, tenants) ==
    /\ parsed' = [called |-> TRUE, token |-> token, tenants |-> tenants, at |-> now,
                  result |-> parseToken(token, now, tenants)]
    /\ UNCHANGED <<processEnv, cachedConfig, configCall, callers, now, rateLimitStore,
                   registrationLimitStore, cleanupInterval, requestLog, req,
                   requestStorage, middlewareCall>>

NextParse ==
    \/ TickTo(MaxRequestTime)
    \/ \E token \in Tokens, tenants \in TenantLists : ParseToken(token, tenants)

SpecParse == Init /\ [][NextParse]_vars

\* ------------------------------------------------------ getConfig called

\* The values the variables of the environment are set to.
EnvValues ==
    [MS365_MCP_CLIENT_ID |-> {Undefined, "", "app-1", "app-2"},
     MS365_MCP_TENANT_ID |-> {Undefined, "", "t1"},
     MS365_MCP_PORT |-> {Undefined, "8080", "80x", "abc"},
     MS365_MCP_LOG_LEVEL |-> {Undefined, "debug"}]

\* A variable of the environment is set, emptied or unset.
SetEnv(name, value) ==
    /\ processEnv' = [processEnv EXCEPT ![name] = value]
    /\ UNCHANGED <<cachedConfig, configCall, parsed, callers, now, rateLimitStore,
                   registrationLimitStore, cleanupInterval, requestLog, req,
                   requestStorage, middlewareCall>>

\* getConfig() is called.
GetConfig ==
    LET out == getConfig(cachedConfig, processEnv)
    IN /\ cachedConfig' = out.cachedConfig
       /\ configCall' = [called |-> TRUE, threw |-> out.threw, returned |-> out.returned]
       /\ UNCHANGED <<processEnv, parsed, callers, now, rateLimitStore,
                      registrationLimitStore, cleanupInterval, requestLog, req,
                      requestStorage, middlewareCall>>

NextConfig ==
    \/ \E name \in DOMAIN EnvValues : \E value \in EnvValues[name] : SetEnv(name, value)
    \/ GetConfig

SpecConfig == Init /\ [][NextConfig]_vars

\* ================================================================== claims

\* The timestamps recordRequest ever pushed for key k that lie in the window
\* ending at t: t - windowMs < timestamp <= t.
WindowCount(k, t) ==
    Cardinality({i \in 1..Len(requestLog[k]) :
                    /\ t - rateLimitWindowMs < requestLog[k][i]
                    /\ requestLog[k][i] <= t})

\* seq is what is left of whole after dropping some of its first elements.
IsSuffix(seq, whole) ==
    /\ Len(seq) <= Len(whole)
    /\ seq = SubSeq(whole, Len(whole) - Len(seq) + 1, Len(whole))

\* C1: whatever a request's chain reads through getContext() /
\* getContextToken(), at any of its steps and under any interleaving with
\* the other request's chain, is the context installed for that request;
\* the token it sends downstream is its own.
C1_ContextIsolation ==
    \A r \in Reqs :
        /\ \A c \in req[r].observed :
              c = RequestContext(req[r].auth.token, req[r].auth.userId)
        /\ req[r].downstream \subseteq {req[r].auth.token}

\* Both chains are suspended inside runWithContext with different tokens,
\* and each has read its context.
C1_Witness ==
    /\ req["r1"].pc = "handling" /\ req["r2"].pc = "handling"
    /\ req["r1"].auth.token = TokenAlice /\ req["r2"].auth.token = TokenBob
    /\ req["r1"].downstream # {} /\ req["r2"].downstream # {}

\* C2: in every state, checkRateLimit(k) called now answers from the count
\* n of all timestamps ever recorded for k with now - windowMs < t <= now:
\* isLimited = (n >= limit), remaining = max(0, limit - n); and it keeps
\* every stored timestamp that is newer than now - windowMs.
C2_SlidingWindowCount ==
    \A k \in UserKeys :
        LET check == checkRateLimit(rateLimitStore, k, now)
            n == WindowCount(k, now)
        IN /\ check.isLimited = (n >= rateLimitRequests)
           /\ check.remaining = Max(0, rateLimitRequests - n)
           /\ Len(Stored(check.store, k)) = n
           /\ \A i \in 1..Len(Stored(rateLimitStore, k)) :
                 Stored(rateLimitStore, k)[i] > now - rateLimitWindowMs
                 => Count(Stored(check.store, k), Stored(rateLimitStore, k)[i])
                    = Count(Stored(rateLimitStore, k), Stored(rateLimitStore, k)[i])

\* The key is at its limit inside the window, while its history and its
\* stored sequence also hold timestamps that have left the window.
C2_Witness ==
    /\ WindowCount("alice", now) >= rateLimitRequests
    /\ Len(requestLog["alice"]) > WindowCount("alice", now)
    /\ Len(Stored(rateLimitStore, "alice")) > WindowCount("alice", now)

\* C3: a request on /mcp whose identity is at or over its limit when it
\* arrives is answered 429 and is neither given a context nor dispatched.
C3_LimitedNeverDispatched ==
    \A r \in Reqs :
        req[r].limitedAtGate
        => /\ req[r].gateResponse.status = 429 \/ req[r].response.status = 429
           /\ req[r].contextInstalls = 0
           /\ req[r].downstream = {}

\* C4: a request whose token parseToken fails with expired_token or
\* tenant_not_allowed is answered 401 and runWithContext is never invoked.
C4_ExpiredOrTenantRejected ==
    \A r \in Reqs :
        req[r].parseCode \in {"expired_token", "tenant_not_allowed"}
        => /\ req[r].gateResponse.status = 401
           /\ req[r].contextInstalls = 0

\* The outcome the gate must give for each header, by the first failing check.
ExpectedDescription(h) ==
    CASE h = NoHeader -> "Missing Authorization header"
      [] h \in {HeaderBasic, HeaderLowerCase, HeaderNoSpace} ->
           "Authorization header must use Bearer scheme"
      [] h \in {HeaderNoToken, HeaderBlankToken} -> "Bearer token is empty"
      [] h \in {HeaderTwoParts, HeaderFourParts} -> "Token format is invalid"
      [] OTHER -> ""

ExpectedError(h) ==
    CASE h = NoHeader -> "invalid_request"
      [] h \in {HeaderBasic, HeaderLowerCase, HeaderNoSpace} -> "invalid_request"
      [] h \in {HeaderNoToken, HeaderBlankToken} -> "invalid_token"
      [] h \in {HeaderTwoParts, HeaderFourParts} -> "invalid_token"
      [] OTHER -> ""

C6_NoHeaderNoEffect ==
    [][\A r \in Reqs :
          (/\ req[r].pc \in {"idle", "done"}
           /\ req'[r] # req[r]
           /\ req'[r].authHeader = NoHeader)
          => /\ req'[r].pc = "done"
             /\ req'[r].gateResponse
                  = Rejection(401, "invalid_request", "Missing Authorization header")
             /\ req'[r].responsesSent = 1
             /\ req'[r].nextCalls = 0
             /\ req'[r].contextInstalls = 0
             /\ requestStorage'[r] = NoContext
             /\ rateLimitStore' = rateLimitStore
             /\ registrationLimitStore' = registrationLimitStore]_vars

\* A request without header was rejected while the per-user store holds
\* recorded requests.
C6_Witness ==
    /\ req["r1"].authHeader = NoHeader
    /\ req["r1"].pc = "done"
    /\ req["r1"].gateResponse.status = 401
    /\ Len(Stored(rateLimitStore, "alice")) > 0

\* C7: a request with a structurally valid token, an extracted identity and
\* an identity under its limit gets its context installed once, adds one
\* timestamp to its identity's entry, and its context's accessToken is the
\* string after 'Bearer ', unmodified.
C7_AdmittedOnceRecordedOnce ==
    \A r \in Reqs :
        (/\ req[r].nextCalls = 1
         /\ req[r].parseCode = "ok"
         /\ req[r].auth.userId # Undefined
         /\ ~req[r].limitedAtGate)
        => /\ req[r].contextInstalls = 1
           /\ req[r].recorded = 1
           /\ req[r].pc \in {"connecting", "handling"}
              => requestStorage[r].accessToken = substring(req[r].authHeader.value, 7)

\* C8: every admitted request has had its identity checked and recorded
\* once before runWithContext, and however its downstream call ends it has
\* contributed exactly one timestamp.
C8_RecordedOnceAtAdmission ==
    \A r \in Reqs :
        (req[r].contextInstalls > 0 /\ req[r].auth.userId # Undefined)
        => req[r].recorded = 1

\* C9: with two concurrent callers that each call checkRateLimit, await, and
\* call recordRequest, a key never has more than limit + 1 timestamps inside
\* the window, in the history or in the store.
C9_AtMostOneExtra ==
    \A k \in UserKeys :
        /\ WindowCount(k, now) <= rateLimitRequests + 1
        /\ Len(filterWindow(Stored(rateLimitStore, k), now - rateLimitWindowMs))
             <= rateLimitRequests + 1

\* Both callers passed the check before either recorded: one request over
\* the limit is inside the window.
C9_Witness == WindowCount("alice", now) = rateLimitRequests + 1

\* C10: a step in which a rate-limit middleware answers 429 pushes no
\* timestamp: the key's stored sequence is what pruning leaves of the
\* sequence before (no new entry, the oldest retained entry unchanged), the
\* history is unchanged and next() is not called.
C10_RejectedNotRecorded ==
    [][/\ (/\ middlewareCall'.route = "user"
           /\ middlewareCall'.response.status = 429
           /\ <<rateLimitStore, middlewareCall>>' # <<rateLimitStore, middlewareCall>>)
          => /\ IsSuffix(Stored(rateLimitStore', middlewareCall'.key),
                         Stored(rateLimitStore, middlewareCall'.key))
             /\ Len(Stored(rateLimitStore', middlewareCall'.key)) >= rateLimitRequests
             /\ requestLog' = requestLog
             /\ ~middlewareCall'.next
       /\ (/\ middlewareCall'.route = "registration"
           /\ middlewareCall'.response.status = 429
           /\ <<registrationLimitStore, middlewareCall>>'
                # <<registrationLimitStore, middlewareCall>>)
          => /\ IsSuffix(Stored(registrationLimitStore', middlewareCall'.key),
                         Stored(registrationLimitStore, middlewareCall'.key))
             /\ Len(Stored(registrationLimitStore', middlewareCall'.key))
                  >= REGISTRATION_LIMIT
             /\ ~middlewareCall'.next]_vars

\* The per-user middleware has answered 429 for a key whose entry holds
\* exactly the limit.
C10_Witness ==
    /\ middlewareCall.route = "user"
    /\ middlewareCall.response.status = 429
    /\ ~middlewareCall.recorded
    /\ Len(Stored(rateLimitStore, "alice")) = rateLimitRequests

\* The instants at which the next call of a sequence of calls can be made:
\* at once, or one clock step later.
NextInstants(t) == {t, t + TickMs}

\* Check-then-record cycles number i, i + 1, ... up to the limit, the i-th
\* at time t, all before the timestamp of the first cycle leaves the
\* window, report isLimited = false and remaining = limit - i; the check
\* that follows the last cycle reports isLimited = true and remaining = 0.
RECURSIVE CyclesReport(_, _, _, _, _)
CyclesReport(store, k, t, i, first) ==
    LET check == checkRateLimit(store, k, t)
    IN IF i > rateLimitRequests
       THEN check.isLimited /\ check.remaining = 0
       ELSE /\ ~check.isLimited
            /\ check.remaining = rateLimitRequests - i
            /\ \A u \in NextInstants(t) :
                  u < first + rateLimitWindowMs
                  => CyclesReport(recordRequest(check.store, k, t), k, u, i + 1, first)

\* C11: for a key with no request in the window (none ever, or none that
\* is still in the window), limit check-then-record cycles made within one
\* window report isLimited = false with remaining = limit - 1, ..., 0 in
\* turn, and the check after them reports isLimited = true, remaining = 0.
C11_CyclesCountDown ==
    \A k \in UserKeys :
        WindowCount(k, now) = 0 => CyclesReport(rateLimitStore, k, now, 1, now)

\* The last timestamp recorded for key k.
LastRecorded(k) == requestLog[k][Len(requestLog[k])]

\* The timestamps of key k that were in the window when the last one was
\* recorded.
LastWindow(k) ==
    {requestLog[k][i] : i \in {j \in 1..Len(requestLog[k]) :
                                  requestLog[k][j] > LastRecorded(k) - rateLimitWindowMs}}

\* The oldest timestamp of LastWindow(k).
OldestInLastWindow(k) == CHOOSE t \in LastWindow(k) : \A u \in LastWindow(k) : t <= u

\* The key reached its limit with its last recorded request.
ReachedLimit(k) ==
    /\ requestLog[k] # <<>>
    /\ Cardinality({i \in 1..Len(requestLog[k]) :
                       requestLog[k][i] > LastRecorded(k) - rateLimitWindowMs})
         >= rateLimitRequests

\* C12: a key that reached its limit with its last recorded request, and
\* for which nothing was recorded since, is reported isLimited = false by
\* every check made after the clock passed windowMs from the oldest
\* timestamp of that window; so it is never limited for longer than
\* windowMs after its last recorded request.
C12_LimitedBecomesAdmissible ==
    \A k \in UserKeys :
        ReachedLimit(k) =>
            /\ now > OldestInLastWindow(k) + rateLimitWindowMs
               => ~checkRateLimit(rateLimitStore, k, now).isLimited
            /\ now >= LastRecorded(k) + rateLimitWindowMs
               => checkRateLimit(rateLimitStore, k, now).remaining = rateLimitRequests

\* The key reached its limit with two different timestamps; the clock has
\* passed windowMs from the older one but not from the newer one, and a
\* request of the key has just been admitted again.
C12_Witness ==
    /\ ReachedLimit("alice")
    /\ OldestInLastWindow("alice") < LastRecorded("alice")
    /\ now > OldestInLastWindow("alice") + rateLimitWindowMs
    /\ now < LastRecorded("alice") + rateLimitWindowMs
    /\ ~checkRateLimit(rateLimitStore, "alice", now).isLimited
    /\ middlewareCall.key = "alice"

\* C13: code that runs outside every body of runWithContext reads an absent
\* context, before, while and after a body runs, whichever way the body
\* ended; and a chain whose body has completed holds no context any more,
\* with no release call made by the handler.
C13_AbsentOutsideAndAfter ==
    \A r \in Reqs :
        /\ \A c \in req[r].observedOutside : c = NoContext
        /\ req[r].pc \in {"idle", "done"} => ~hasRequestContext(r)

\* A body that had its context installed has ended by throwing, code
\* outside it has read the context since, and the other request's body is
\* running with its own context.
C13_Witness ==
    /\ req["r1"].pc = "done" /\ req["r1"].contextInstalls = 1
    /\ req["r1"].response = InternalError
    /\ req["r1"].observedOutside # {}
    /\ req["r2"].pc = "handling" /\ hasRequestContext("r2")
    /\ req["r2"].observedOutside # {}

\* The segments of the token of the last parseToken call.
ParsedSegments == split(parsed.token, ".")

\* The token has three dot-separated segments.
ThreeSegments == Len(ParsedSegments) = 3

\* What the middle segment of the token decodes to.
ParsedPayload == decodePayload(ParsedSegments[2])

\* A claim is present: neither missing nor the empty string.
Present(claim) == claim # Undefined /\ claim # ""

\* The payload is a JSON object with iss, aud, tid and one of oid and sub.
HasRequiredClaims ==
    /\ ThreeSegments
    /\ ParsedPayload.kind = "object"
    /\ Present(ParsedPayload.claims.iss) /\ Present(ParsedPayload.claims.aud)
    /\ Present(ParsedPayload.claims.tid)
    /\ Present(ParsedPayload.claims.oid) \/ Present(ParsedPayload.claims.sub)

\* exp is present and exp < now_seconds - 60.
ExpiredBeyondTolerance ==
    /\ ParsedPayload.claims.exp # <<>>
    /\ ParsedPayload.claims.exp[1] < (parsed.at \div 1000) - 60

\* The tenant check passes: no allow-list, or tid is on it.
TenantPasses ==
    \/ parsed.tenants = <<>>
    \/ \E i \in 1..Len(parsed.tenants) : parsed.tenants[i] = ParsedPayload.claims.tid

\* C14: with a non-empty allow-list parseToken returns an identity only
\* for a tid on the list, and a token valid in everything else whose tid is
\* not on the list fails with tenant_not_allowed; with an empty allow-list
\* a token valid in everything else succeeds whatever its tid.
C14_TenantAllowList ==
    parsed.called =>
        /\ (parsed.result.ok /\ parsed.tenants # <<>>)
           => \E i \in 1..Len(parsed.tenants) :
                 parsed.tenants[i] = parsed.result.claims.tid
        /\ (HasRequiredClaims /\ ~ExpiredBeyondTolerance /\ ~TenantPasses)
           => ~parsed.result.ok /\ parsed.result.code = "tenant_not_allowed"
        /\ (HasRequiredClaims /\ ~ExpiredBeyondTolerance /\ parsed.tenants = <<>>)
           => parsed.result.ok

\* The example of the allow-list {t2} and a token of tenant t1, rejected.
C14_Witness ==
    /\ parsed.called
    /\ parsed.tenants = <<"t2">>
    /\ parsed.token = TokenWith(<<"p">>)
    /\ parsed.result.code = "tenant_not_allowed"

\* C15: with all other checks passing, parseToken fails with expired_token
\* exactly when exp is present and exp < now_seconds - 60.
C15_ExpiredExactly ==
    (parsed.called /\ HasRequiredClaims /\ TenantPasses)
        => ((parsed.result.code = "expired_token") <=> ExpiredBeyondTolerance)

C17_ThreeNonEmptySegments ==
    (parsed.called
     /\ (~ThreeSegments \/ \E i \in 1..Len(ParsedSegments) : ParsedSegments[i] = <<>>))
        => ~parsed.result.ok /\ parsed.result.code = "invalid_token"

\* The characters of the base64url texts of this model.
Base64urlAlphabet == PayloadLetters \cup {"x", "h", "s"}

\* The middle segment is a base64url text that decodes to JSON.
Base64urlJson ==
    /\ \A i \in 1..Len(ParsedSegments[2]) : ParsedSegments[2][i] \in Base64urlAlphabet
    /\ ParsedPayload.kind # "SyntaxError"

\* C18: a three-segment token whose middle segment is not base64url-encoded
\* JSON makes parseToken fail with invalid_token.
C18_MalformedPayloadFails ==
    (parsed.called /\ ThreeSegments /\ ~Base64urlJson)
        => ~parsed.result.ok /\ parsed.result.code = "invalid_token"

\* C19: parseToken returns an identity or fails with a TokenValidationError
\* of code invalid_token, expired_token or tenant_not_allowed.
C19_OnlyValidationErrors ==
    parsed.called =>
        \/ parsed.result.ok
        \/ parsed.result.code \in {"invalid_token", "expired_token", "tenant_not_allowed"}

\* The header carries a Bearer token of three segments whose payload the
\* gate cannot read: no JSON text, or the JSON value null.
UndecodablePayload(h) ==
    /\ h.present
    /\ startsWith(h.value, BearerPrefix)
    /\ LET parts == split(trim(substring(h.value, 7)), ".")
       IN /\ Len(parts) = 3
          /\ decodePayload(parts[2]).kind \in {"SyntaxError", "null"}

SweepStep == cleanupInterval.active /\ cleanupInterval'.dueAt # cleanupInterval.dueAt

\* The entries of a store that have been idle for more than 2 x windowMs
\* at time t.
IdleKeys(store, t) ==
    {k \in DOMAIN store : store[k].lastAccess < t - (rateLimitWindowMs * 2)}

\* C21: after every sweep, neither the per-user store nor the
\* per-client-address store holds an entry that has been idle for more
\* than 2 x windowMs.
C21_BothStoresSwept ==
    [][SweepStep => /\ IdleKeys(rateLimitStore', now) = {}
                    /\ IdleKeys(registrationLimitStore', now) = {}]_vars

\* C22: a sweep removes exactly the entries whose lastAccess is older than
\* now - 2 x windowMs; every other entry is left with its timestamps and
\* its lastAccess.
C22_SweepRemovesExactlyStale ==
    [][SweepStep =>
          /\ DOMAIN rateLimitStore' = DOMAIN rateLimitStore \ IdleKeys(rateLimitStore, now)
          /\ \A k \in DOMAIN rateLimitStore' : rateLimitStore'[k] = rateLimitStore[k]]_vars

\* The sweep has run: it removed alice's entry and kept the entry of
\* 'unknown', which was last accessed before the sweep.
C22_Witness ==
    /\ cleanupInterval.dueAt >= 2 * CLEANUP_INTERVAL_MS
    /\ requestLog["alice"] # <<>> /\ "alice" \notin DOMAIN rateLimitStore
    /\ "unknown" \in DOMAIN rateLimitStore
    /\ rateLimitStore["unknown"].lastAccess < now
    /\ rateLimitStore["unknown"].requests # <<>>

\* The step is a call of checkRateLimit or recordRequest.
LimiterCallStep ==
    /\ now' = now
    /\ ~SweepStep
    /\ <<rateLimitStore, cleanupInterval, callers>>' # <<rateLimitStore, cleanupInterval, callers>>

\* C23: whenever the sweep removed a key's entry (before its check, between
\* its check and its record, or after them), the next check or record on
\* the key completes and leaves an entry for it: a check creates an entry
\* without timestamps, a record an entry with exactly the new timestamp.
C23_LazyRecreation ==
    [][LimiterCallStep =>
          /\ "alice" \in DOMAIN rateLimitStore'
          /\ rateLimitStore'["alice"].lastAccess = now
          /\ "alice" \notin DOMAIN rateLimitStore =>
                IF requestLog' # requestLog
                THEN rateLimitStore'["alice"].requests = <<now>>
                ELSE rateLimitStore'["alice"].requests = <<>>]_vars

\* The sweep has run, and the only record ever made for the key, by a
\* caller whose check preceded the sweep, left an entry with that one
\* timestamp while the other caller is still between check and record.
C23_Witness ==
    /\ cleanupInterval.dueAt >= 2 * CLEANUP_INTERVAL_MS
    /\ requestLog["alice"] = <<now>>
    /\ rateLimitStore["alice"] = [requests |-> <<now>>, lastAccess |-> now]
    /\ \E c \in Callers : callers[c] = "admitted"

\* The timestamps of a sequence that lie in the registration window ending
\* at t.
InRegistrationWindow(requests, t) ==
    {i \in 1..Len(requests) : requests[i] > t - REGISTRATION_WINDOW_MS /\ requests[i] <= t}

\* The step is a request through the registration limiter / the per-user
\* limiter.
RegistrationStep ==
    /\ middlewareCall'.route = "registration"
    /\ <<middlewareCall, registrationLimitStore>>' # <<middlewareCall, registrationLimitStore>>

UserLimiterStep ==
    /\ middlewareCall'.route = "user"
    /\ <<middlewareCall, rateLimitStore, cleanupInterval>>'
         # <<middlewareCall, rateLimitStore, cleanupInterval>>

\* C24: a registration request of an address that has 5 admitted requests
\* in the 60000 ms window gets 429 and is not recorded, any other is
\* admitted and recorded once, so no window holds more than 5 admitted
\* requests of an address; a registration request leaves the per-user store,
\* its history and its timer untouched, and a per-user request leaves the
\* per-client-address store untouched, also for a key both stores hold.
C24_RegistrationLimitIndependent ==
    [][/\ RegistrationStep =>
             LET ip == middlewareCall'.key
                 before == Stored(registrationLimitStore, ip)
                 after == Stored(registrationLimitStore', ip)
                 n == Cardinality(InRegistrationWindow(before, now))
             IN /\ IF n >= 5
                   THEN /\ middlewareCall'.response.status = 429
                        /\ ~middlewareCall'.next
                        /\ Len(after) = n /\ IsSuffix(after, before)
                   ELSE /\ ~middlewareCall'.response.sent
                        /\ middlewareCall'.next
                        /\ Len(after) = n + 1 /\ after[Len(after)] = now
                        /\ IsSuffix(SubSeq(after, 1, n), before)
                /\ \A i \in 1..Len(after) :
                      Cardinality(InRegistrationWindow(after, after[i])) <= 5
                /\ UNCHANGED <<rateLimitStore, requestLog, cleanupInterval>>
       /\ UserLimiterStep => UNCHANGED registrationLimitStore]_vars

\* The address 'unknown' has just been answered 429 with 5 admitted
\* requests in its window, while the per-user store holds an entry of its
\* own under the same key.
C24_Witness ==
    /\ middlewareCall.route = "registration"
    /\ middlewareCall.response.status = 429
    /\ Len(Stored(registrationLimitStore, "unknown")) = 5
    /\ Stored(rateLimitStore, "unknown") # <<>>
    /\ Stored(rateLimitStore, "unknown") # Stored(registrationLimitStore, "unknown")

\* The catch block of the handler has run for this request.
CaughtIn(q) == \E i \in 1..Len(q.log) : q.log[i].message = "MCP request error"

\* C25: an exception thrown by mcpServer.connect or transport.handleRequest
\* ends in the catch block of the handler and is not thrown again; the
\* request gets at most one response, the 500 envelope when no headers were
\* sent and otherwise the response the transport had begun, and the
\* envelope is a constant that carries neither token nor claims.
C25_ExceptionsCaught ==
    \A r \in Reqs :
        LET q == req[r]
        IN /\ ~q.escaped
           /\ q.responsesSent <= 1
           /\ CaughtIn(q) =>
                 /\ q.pc = "done"
                 /\ q.response \in {InternalError, TransportResponse}
                 /\ q.response.sent /\ q.responsesSent = 1
                 /\ q.response = InternalError =>
                       /\ q.response.status = 500
                       /\ q.response.error_description = "Internal server error"

\* The handler caught an exception thrown after the transport had sent the
\* response headers: no second response was sent.
C25_Witness ==
    /\ CaughtIn(req["r1"])
    /\ req["r1"].response = TransportResponse
    /\ req["r1"].responsesSent = 1
    /\ req["r1"].contextInstalls = 1

\* The kind of rejection of the headers that carry 'Bearer ' and a token.
RejectionKind(h) ==
    CASE h \in {HeaderNoToken, HeaderBlankToken} -> "EmptyToken"
      [] h \in {HeaderTwoParts, HeaderFourParts} -> "MalformedToken"
      [] OTHER -> "none"

C27_NoTokenInProcessState ==
    /\ \A k \in DOMAIN rateLimitStore :
          /\ k \in UserKeys
          /\ DOMAIN rateLimitStore[k] = {"requests", "lastAccess"}
          /\ rateLimitStore[k].lastAccess \in Nat
          /\ \A i \in 1..Len(rateLimitStore[k].requests) :
                rateLimitStore[k].requests[i] \in Nat
    /\ \A k \in DOMAIN registrationLimitStore :
          /\ k \in IPs
          /\ DOMAIN registrationLimitStore[k] = {"requests", "lastAccess"}
    /\ DOMAIN cleanupInterval = {"active", "dueAt", "unref"}
    /\ \A r \in Reqs :
          /\ hasRequestContext(r) =>
                /\ req[r].pc \in {"connecting", "handling"}
                /\ getContext(r) = RequestContext(req[r].auth.token, req[r].auth.userId)
          /\ req[r].pc \in {"idle", "done"} => getContext(r) = NoContext
          /\ req[r].outer = NoContext

\* A request whose tool call used its token has completed, and per-user
\* entries exist, while no context is left.
C27_Witness ==
    /\ req["r1"].pc = "done"
    /\ req["r1"].downstream = {TokenAlice}
    /\ req["r1"].response = TransportResponse
    /\ DOMAIN rateLimitStore # {}
    /\ cleanupInterval.active

\* The issuers of Microsoft's endpoints for tenant t1.
MicrosoftIssuers == {MicrosoftIssuer, "https://sts.windows.net/t1/"}

\* C28: a request whose token has an aud other than the configured client
\* id, or an iss that is no Microsoft endpoint, is rejected: no context is
\* installed for it and no tool call is dispatched with its token.
C28_AudienceAndIssuerChecked ==
    \A r \in Reqs :
        LET parts == split(req[r].auth.token, ".")
            claims == decodePayload(parts[2]).claims
        IN (req[r].auth.set /\ Len(parts) = 3
            /\ decodePayload(parts[2]).kind = "object"
            /\ (claims.aud # clientId \/ claims.iss \notin MicrosoftIssuers))
           => /\ req[r].contextInstalls = 0
              /\ req[r].downstream = {}

\* The time from t until the oldest of these timestamps leaves a window.
UntilOldestLeaves(stamps, window, t) ==
    LET oldest == CHOOSE m \in {stamps[i] : i \in 1..Len(stamps)} :
                      \A i \in 1..Len(stamps) : m <= stamps[i]
    IN (oldest + window) - t

\* C29: a 429 of either limiter carries Retry-After, in seconds, that is no
\* less than the time until the oldest counted timestamp leaves the window
\* (resetMs); the same request made again Retry-After seconds later, with
\* nothing recorded for the key in between, is admitted; made again at
\* once, one millisecond before resetMs has elapsed, or one second before
\* Retry-After has elapsed, it is rejected again.
C29_RetryAfterCoversReset ==
    [][(now' = now /\ middlewareCall'.response.status = 429) =>
          LET c == middlewareCall'
              user == c.route = "user"
              stamps == IF user THEN Stored(rateLimitStore', c.key)
                        ELSE Stored(registrationLimitStore', c.key)
              window == IF user THEN rateLimitWindowMs ELSE REGISTRATION_WINDOW_MS
              resetMs == UntilOldestLeaves(stamps, window, now)
              retry(t) == IF user THEN rateLimitMiddleware(rateLimitStore', c.key, t)
                          ELSE registrationRateLimitMiddleware(
                                   registrationLimitStore', c.key, t)
          IN /\ c.headers.retryAfter # <<>>
             /\ resetMs > 0
             /\ c.headers.retryAfter[1] * 1000 >= resetMs
             /\ retry(now + c.headers.retryAfter[1] * 1000).next
             /\ \A t \in {now, (now + resetMs) - 1,
                          now + (c.headers.retryAfter[1] - 1) * 1000} :
                   /\ ~retry(t).next
                   /\ retry(t).response.status = 429
                   /\ retry(t).headers.retryAfter # <<>>
      ]_vars

\* A request of a key has just been answered 429 while the two timestamps
\* counted against it differ, so the oldest leaves the window before the
\* newest.
C29_Witness ==
    /\ middlewareCall.route = "user"
    /\ middlewareCall.key = "alice"
    /\ middlewareCall.response.status = 429
    /\ middlewareCall.headers.retryAfter # <<>>
    /\ Len(Stored(rateLimitStore, "alice")) = rateLimitRequests
    /\ Stored(rateLimitStore, "alice")[1] < Stored(rateLimitStore, "alice")[2]
    /\ now < Stored(rateLimitStore, "alice")[1] + rateLimitWindowMs

\* The first present of these claims, Undefined when none is.
FirstPresent(claims) ==
    IF claims = <<>> THEN Undefined
    ELSE IF Present(Head(claims)) THEN Head(claims)
    ELSE IF Len(claims) = 1 THEN Undefined
    ELSE IF Present(claims[2]) THEN claims[2]
    ELSE IF Len(claims) = 2 THEN Undefined
    ELSE IF Present(claims[3]) THEN claims[3]
    ELSE Undefined

\* C30: the user id attached to a request whose payload is a JSON object is
\* the first present of preferred_username, upn and email, and with none of
\* these the subject id: oid when present, sub only otherwise.
C30_UserIdPrecedence ==
    \A r \in Reqs :
        LET parts == split(req[r].auth.token, ".")
            claims == decodePayload(parts[2]).claims
            name == FirstPresent(<<claims.preferred_username, claims.upn, claims.email>>)
        IN (req[r].auth.set /\ Len(parts) = 3
            /\ decodePayload(parts[2]).kind = "object")
           => req[r].auth.userId =
                 IF Present(name) THEN name
                 ELSE IF Present(claims.oid) THEN claims.oid
                 ELSE claims.sub

\* The timestamps of a sequence that are newer than t - window.
Retained(stamps, window, t) == SelectSeq(stamps, LAMBDA u : u > t - window)

\* The time until the oldest retained timestamp leaves the window, the
\* whole window when none is retained.
ExpectedResetMs(stamps, window, t) ==
    IF Retained(stamps, window, t) = <<>> THEN window
    ELSE UntilOldestLeaves(Retained(stamps, window, t), window, t)

\* The instants, from now on, at which a key is looked at.
InstantsFrom(t, window) == {t, t + 1, (t + window) - 1, t + window}

\* C31: checkRateLimit returns resetMs = (oldest retained timestamp +
\* windowMs) - now, with 0 < resetMs <= windowMs, when the entry retains a
\* timestamp after pruning, and windowMs when it retains none; the
\* registration limiter reports the same value, in seconds rounded up, as
\* X-RateLimit-Reset.
C31_ResetMs ==
    /\ \A k \in UserKeys, t \in InstantsFrom(now, rateLimitWindowMs) :
          LET check == checkRateLimit(rateLimitStore, k, t)
              stamps == Stored(rateLimitStore, k)
          IN /\ check.resetMs = ExpectedResetMs(stamps, rateLimitWindowMs, t)
             /\ check.resetMs > 0
             /\ check.resetMs <= rateLimitWindowMs
             /\ Stored(check.store, k) = <<>> => check.resetMs = rateLimitWindowMs
    /\ \A ip \in IPs, t \in InstantsFrom(now, REGISTRATION_WINDOW_MS) :
          LET out == registrationRateLimitMiddleware(registrationLimitStore, ip, t)
              stamps == Stored(registrationLimitStore, ip)
          IN /\ out.headers.reset =
                   CeilSeconds(ExpectedResetMs(stamps, REGISTRATION_WINDOW_MS, t))
             /\ out.headers.reset > 0
             /\ out.headers.reset * 1000 <= REGISTRATION_WINDOW_MS + 999

\* A request of a key was answered with a reset shorter than the window,
\* counted from a timestamp recorded earlier, while another key that holds
\* no timestamp in the window would be given the whole window.
C31_Witness ==
    /\ middlewareCall.route = "user"
    /\ middlewareCall.key = "unknown"
    /\ Len(Stored(rateLimitStore, "unknown")) = 2
    /\ Stored(rateLimitStore, "unknown")[1] < now
    /\ middlewareCall.headers.reset * 1000 < rateLimitWindowMs
    /\ middlewareCall.headers.reset * 1000
         >= (Stored(rateLimitStore, "unknown")[1] + rateLimitWindowMs) - now
    /\ checkRateLimit(rateLimitStore, "alice", now).resetMs = rateLimitWindowMs

\* C32: recordRequest(k) appends the one timestamp now to the sequence of
\* k and sets lastAccess to now, creating the entry when k has none; it
\* removes no timestamp and does not consult the limit, so a record made
\* without a check is stored for a key that is at or over its limit too.
C32_RecordAppendsOne ==
    [][requestLog' # requestLog =>
          \E k \in UserKeys :
              /\ requestLog' = [requestLog EXCEPT ![k] = Append(@, now)]
              /\ DOMAIN rateLimitStore' = DOMAIN rateLimitStore \cup {k}
              /\ Stored(rateLimitStore', k) = Append(Stored(rateLimitStore, k), now)
              /\ rateLimitStore'[k].lastAccess = now
              /\ \A j \in DOMAIN rateLimitStore \ {k} :
                    rateLimitStore'[j] = rateLimitStore[j]
      ]_vars

\* Timestamps were recorded for a key that was at its limit already: it
\* holds more than limit timestamps of the current window, the last one
\* recorded now, and none was removed.
C32_Witness ==
    /\ Len(Stored(rateLimitStore, "alice")) > rateLimitRequests + 1
    /\ Stored(rateLimitStore, "alice") = requestLog["alice"]
    /\ Stored(rateLimitStore, "alice")[1] > now - rateLimitWindowMs
    /\ LastRecorded("alice") = now
    /\ rateLimitStore["alice"].lastAccess = now

\* C33: once the sweep timer is set, no call of checkRateLimit sets another
\* one or moves the pending sweep; the sweep is a step of its own, which
\* touches no request and answers none; and the timer that is set is
\* unref'd, so that it does not keep the process alive.
C33_OneSweepTimer ==
    [][/\ cleanupInterval.active =>
             /\ cleanupInterval'.active
             /\ \/ cleanupInterval' = cleanupInterval
                \/ /\ now >= cleanupInterval.dueAt
                   /\ cleanupInterval'.dueAt = now + CLEANUP_INTERVAL_MS
                   /\ UNCHANGED <<now, registrationLimitStore, requestLog, req,
                                  requestStorage, middlewareCall, callers>>
       /\ cleanupInterval'.active => cleanupInterval'.unref
       /\ (\E k \in DOMAIN rateLimitStore : k \notin DOMAIN rateLimitStore')
             => /\ cleanupInterval.active /\ now >= cleanupInterval.dueAt
                /\ UNCHANGED <<now, registrationLimitStore, requestLog, req,
                               requestStorage, middlewareCall, callers>>
      ]_vars

\* The timer was set by the first check at time 0, checks were made later
\* on, and its sweep has run once.
C33_Witness ==
    /\ cleanupInterval.active
    /\ cleanupInterval.unref
    /\ cleanupInterval.dueAt = 2 * CLEANUP_INTERVAL_MS
    /\ "alice" \in DOMAIN rateLimitStore
    /\ rateLimitStore["alice"].lastAccess > 0

\* Every timestamp of every entry of a store is at most the entry's
\* lastAccess.
LastAccessCovers(store) ==
    \A k \in DOMAIN store :
        \A i \in 1..Len(store[k].requests) : store[k].lastAccess >= store[k].requests[i]

\* C36: in both stores the lastAccess of an entry is >= every timestamp the
\* entry holds; so an entry the sweep removes holds no timestamp of the
\* current window, and every later check of its key reports the isLimited
\* and remaining it would have reported with the entry left in place.
C36_SweepChangesNoAnswer ==
    [][/\ LastAccessCovers(rateLimitStore')
       /\ LastAccessCovers(registrationLimitStore')
       /\ \A k \in DOMAIN rateLimitStore \ DOMAIN rateLimitStore' :
             /\ Retained(Stored(rateLimitStore, k), rateLimitWindowMs, now) = <<>>
             /\ \A t \in InstantsFrom(now, rateLimitWindowMs) :
                   LET kept == checkRateLimit(rateLimitStore, k, t)
                       swept == checkRateLimit(rateLimitStore', k, t)
                   IN /\ swept.isLimited = kept.isLimited
                      /\ swept.remaining = kept.remaining
      ]_vars

\* The sweep has removed the entry of one key, which held timestamps, and
\* kept the entry of another.
C36_Witness ==
    /\ cleanupInterval.dueAt >= 2 * CLEANUP_INTERVAL_MS
    /\ "alice" \notin DOMAIN rateLimitStore
    /\ Len(requestLog["alice"]) = 2
    /\ "unknown" \in DOMAIN rateLimitStore
    /\ Len(Stored(rateLimitStore, "unknown")) > 0

\* C37: with check and record made in one step by the middlewares, a key
\* never holds more than limit timestamps in either store, and of the
\* requests admitted for one key no more than limit lie in a window
\* (t - windowMs, t], whatever t.
C37_NeverOverLimit ==
    /\ \A k \in UserKeys :
          /\ Len(Stored(rateLimitStore, k)) <= rateLimitRequests
          /\ \A i \in 1..Len(requestLog[k]) :
                Cardinality({j \in 1..Len(requestLog[k]) :
                                /\ requestLog[k][j] > requestLog[k][i] - rateLimitWindowMs
                                /\ requestLog[k][j] <= requestLog[k][i]})
                  <= rateLimitRequests
    /\ \A ip \in IPs :
          LET stamps == Stored(registrationLimitStore, ip)
          IN /\ Len(stamps) <= REGISTRATION_LIMIT
             /\ stamps # <<>> => stamps[Len(stamps)] - stamps[1] < REGISTRATION_WINDOW_MS

\* A key has been admitted more often than its limit over time, holds limit
\* timestamps, and its last request was answered 429; the address limiter
\* holds its limit of timestamps too.
C37_Witness ==
    /\ Len(requestLog["alice"]) > rateLimitRequests
    /\ Len(Stored(rateLimitStore, "alice")) = rateLimitRequests
    /\ middlewareCall.route = "user"
    /\ middlewareCall.response.status = 429
    /\ Len(Stored(registrationLimitStore, "10.0.0.1")) = REGISTRATION_LIMIT

\* What a check reports.
Answer(check) ==
    [isLimited |-> check.isLimited, remaining |-> check.remaining,
     resetMs |-> check.resetMs]

\* C38: checkRateLimit(k) and recordRequest(k) leave the entry of every
\* other key as it is, and what a check of another key reports is the
\* same after them as before.
C38_KeysIndependent ==
    \A k \in UserKeys :
        LET checked == checkRateLimit(rateLimitStore, k, now).store
            recorded == recordRequest(checked, k, now)
            alone == recordRequest(rateLimitStore, k, now)
        IN \A j \in UserKeys \ {k} :
              /\ j \in DOMAIN checked <=> j \in DOMAIN rateLimitStore
              /\ j \in DOMAIN alone <=> j \in DOMAIN rateLimitStore
              /\ j \in DOMAIN rateLimitStore =>
                    /\ checked[j] = rateLimitStore[j]
                    /\ recorded[j] = rateLimitStore[j]
                    /\ alone[j] = rateLimitStore[j]
              /\ Answer(checkRateLimit(recorded, j, now))
                   = Answer(checkRateLimit(rateLimitStore, j, now))

\* One key is at its limit, and the request of another key, made after
\* that, has been admitted with its full allowance.
C38_Witness ==
    /\ checkRateLimit(rateLimitStore, "alice", now).isLimited
    /\ middlewareCall.route = "user"
    /\ middlewareCall.key = "unknown"
    /\ middlewareCall.next
    /\ middlewareCall.headers.remaining = rateLimitRequests
    /\ Stored(rateLimitStore, "unknown") = <<now>>
    /\ checkRateLimit(rateLimitStore, "unknown", now).remaining = rateLimitRequests - 1

\* The code of the first check, in the order segment count, payload decode,
\* iss and aud, oid or sub, tid, expiry, tenant allow-list, that the token
\* fails; "ok" when it fails none.
FirstFailingCheck ==
    IF ~ThreeSegments THEN "invalid_token"
    ELSE IF ParsedPayload.kind = "SyntaxError" THEN "invalid_token"
    ELSE IF ~HasRequiredClaims THEN "invalid_token"
    ELSE IF ExpiredBeyondTolerance THEN "expired_token"
    ELSE IF ~TenantPasses THEN "tenant_not_allowed"
    ELSE "ok"

\* C35: parseToken reports the first check that fails, in the order segment
\* count, payload decode, iss and aud, oid or sub, tid, expiry, tenant
\* allow-list: an expired token of a tenant that is not allowed fails with
\* expired_token, and a token without a required claim fails with
\* invalid_token even when it is expired or of a tenant that is not allowed.
C35_FirstFailingCheck ==
    parsed.called =>
        /\ parsed.result.code = FirstFailingCheck
        /\ parsed.result.ok <=> FirstFailingCheck = "ok"

\* A step of getConfig().
GetConfigStep ==
    /\ processEnv' = processEnv
    /\ configCall'.called
    /\ configCall' # configCall \/ cachedConfig' # cachedConfig

\* C34: once getConfig has succeeded, the cached configuration never
\* changes and every later call returns it, whatever the environment has
\* become; a call made while the client id is missing throws and caches
\* nothing, and a call made with the client id set and nothing cached
\* succeeds with the values of the environment at that moment.
C34_ConfigCachedOnce ==
    [][/\ ~cachedConfig.isNull => cachedConfig' = cachedConfig
       /\ GetConfigStep =>
             IF ~cachedConfig.isNull
             THEN ~configCall'.threw /\ configCall'.returned = cachedConfig
             ELSE IF processEnv.MS365_MCP_CLIENT_ID \in {Undefined, ""}
             THEN configCall'.threw /\ cachedConfig'.isNull
             ELSE /\ ~configCall'.threw
                  /\ configCall'.returned.clientId = processEnv.MS365_MCP_CLIENT_ID
                  /\ ~configCall'.returned.isNull
                  /\ cachedConfig' = configCall'.returned
      ]_vars

\* getConfig has returned the configuration cached under another
\* environment: the client id, the tenant and the port set now are not the
\* ones it returned.
C34_Witness ==
    /\ configCall.called /\ ~configCall.threw
    /\ configCall.returned = cachedConfig
    /\ cachedConfig.clientId = "app-1"
    /\ cachedConfig.tenantId = "common"
    /\ cachedConfig.port = <<80>>
    /\ processEnv.MS365_MCP_CLIENT_ID = Undefined
    /\ processEnv.MS365_MCP_TENANT_ID = "t1"
    /\ processEnv.MS365_MCP_PORT = "8080"

====
